---- MODULE Spec2Model ----
(***************************************************************************)
(* md2epub (src/index.js): one run of the script is a sequence of steps    *)
(* over the working directory, the in-memory JSZip archive and the lists   *)
(* chapters / fileNames / images.  File names, ids and document texts are  *)
(* strings and are computed with the string operations the script uses.    *)
(***************************************************************************)
EXTENDS Integers, Sequences, FiniteSets, TLC

VARIABLES
  userFiles,    \* the user's files in the working directory: name -> content
  sidecar,      \* the text of ./metadata.json, or NoFile
  outFiles,     \* files written by the .then callback: name -> archive content
  configFiles,  \* the three configuration files read by getConfig
  argv,         \* the option values given on the command line
  pc,           \* position of the script
  options,      \* const options (line 74)
  files,        \* const files (line 92)
  metadata,     \* const metadata (line 107)
  chapters,     \* const chapters (line 110)
  fileNames,    \* const fileNames (line 111)
  images,       \* const images (line 112)
  fi,           \* index of the next element files.forEach visits (0-based)
  zip,          \* the JSZip instance: entry name -> entry
  promise,      \* state of the promise returned by zip.generateAsync
  console,      \* what was printed with console.log / console.error
  events,       \* history: the order of serialization request, write, report
  firstRun,     \* whether this is the first run of the tool on this directory
  firstMeta,    \* history: the metadata the first run resolved
  sidecar0,     \* history: ./metadata.json as the user left it
  tokens,       \* renderer: the inline token sequence being rendered
  idx,          \* renderer: index of the next token to render (0-based)
  out           \* renderer: what each soft break rendered as

vars == <<userFiles, sidecar, outFiles, configFiles, argv, pc, options, files,
          metadata, chapters, fileNames, images, fi, zip, promise, console,
          events, firstRun, firstMeta, sidecar0, tokens, idx, out>>

progVars == <<pc, options, files, metadata, chapters, fileNames, images, fi,
              zip, promise, console, events>>

renderVars == <<tokens, idx, out>>

-----------------------------------------------------------------------------
(* Bounds of the model *)

MaxFiles == 3
MaxTokens == 3

-----------------------------------------------------------------------------
(* JavaScript values and string operations *)

\* the value undefined
Undefined == "<undefined>"

\* string conversion in a template literal or a + concatenation
ToStr(v) == IF v = Undefined THEN "undefined" ELSE v

\* obj[k]: a missing property reads as undefined
Get(obj, k) == IF k \in DOMAIN obj THEN obj[k] ELSE Undefined

\* Object.assign(target, source)
Assign(target, source) ==
  [k \in DOMAIN target \cup DOMAIN source |->
     IF k \in DOMAIN source THEN source[k] ELSE target[k]]

\* s.charAt(i), 0-based; "" outside the string
CharAt(s, i) == IF i >= 0 /\ i < Len(s) THEN SubSeq(s, i + 1, i + 1) ELSE ""

\* s.endsWith(suffix)
EndsWith(s, suffix) ==
  /\ Len(s) >= Len(suffix)
  /\ SubSeq(s, Len(s) - Len(suffix) + 1, Len(s)) = suffix

\* s.slice(from), from >= 0
SliceFrom(s, from) == SubSeq(s, from + 1, Len(s))

\* s.slice(0, -n)
SliceDropLast(s, n) == SubSeq(s, 1, Len(s) - n)

\* s.lastIndexOf(c) for a one-character c; -1 when absent
LastIndexOf(s, c) ==
  LET hits == {i \in 0..(Len(s) - 1) : CharAt(s, i) = c}
  IN  IF hits = {} THEN -1 ELSE CHOOSE i \in hits : \A j \in hits : j <= i

\* s.indexOf(needle) !== -1
Contains(s, needle) ==
  \E i \in 1..(Len(s) - Len(needle) + 1) :
     SubSeq(s, i, i + Len(needle) - 1) = needle

\* s.replaceAll(a, b) for one-character a
RECURSIVE ReplaceAll(_, _, _)
ReplaceAll(s, a, b) ==
  IF s = "" THEN ""
  ELSE (IF CharAt(s, 0) = a THEN b ELSE CharAt(s, 0))
         \o ReplaceAll(SliceFrom(s, 1), a, b)

\* array.includes(x)
Includes(arr, x) == \E i \in 1..Len(arr) : arr[i] = x

basename(path) == SliceFrom(path, LastIndexOf(path, "/") + 1)

extension(path) == SliceFrom(path, LastIndexOf(path, ".") + 1)

\* zip.file(name, data): adds the entry, replacing an entry of the same name
ZipFile(z, name, data) == (name :> data) @@ z

-----------------------------------------------------------------------------
(* JSON texts: a text is a parsed-object text or something unparsable *)

NoFile == <<"ENOENT">>

Malformed == <<"text", "{oops">>

\* JSON.stringify(obj, null, 2): properties whose value is undefined are left out
JSONstringify(obj) ==
  <<"json", [k \in {f \in DOMAIN obj : obj[f] # Undefined} |-> obj[k]]>>

JSONparses(text) == text[1] = "json"

\* JSON.parse(text), for a text that parses
JSONparse(text) == text[2]

-----------------------------------------------------------------------------
(* The inputs of the model: small sets of directories, metadata files,      *)
(* configuration files and command lines                                    *)

Names == {"a.md", "b.md", "cover.md", "a.jpg", "a.png", "xjpg"}

PlainContent == "# One\ntext"

Contents == {PlainContent, "see a.jpg\n# Two", "pic a.png", "a.jpeg a.gif"}

ImageBytes == "bytes"

\* what a file of the given name may hold: a.md, the chapter with companion
\* images among the names, holds any of the contents
ContentsOf(name) ==
  IF name = "a.md" THEN Contents
  ELSE IF EndsWith(name, ".md") THEN {PlainContent} ELSE {ImageBytes}

\* the images chapter a.md may have as companion
CompanionNames == {"a.jpg", "a.jpeg", "a.png", "a.gif"}

\* the directories of at most n files: a.md and some of its companions
CompanionDirs(n) ==
  UNION {{f \in [S \cup {"a.md"} -> Contents \cup {ImageBytes}] :
            \A e \in S \cup {"a.md"} : f[e] \in ContentsOf(e)} :
         S \in {T \in SUBSET CompanionNames : Cardinality(T) < n}}

\* the directories of at most n of the names
UserDirs(n) ==
  UNION {{f \in [S -> Contents \cup {ImageBytes}] :
            \A e \in S : f[e] \in ContentsOf(e)} :
         S \in {T \in SUBSET Names : Cardinality(T) <= n}}

FullSidecar ==
  <<"json", [k \in {"title", "cover_image", "language"} |->
               CASE k = "title" -> "Side"
                 [] k = "cover_image" -> "side.png"
                 [] k = "language" -> "CN"]>>

PartialSidecar == <<"json", [k \in {"author"} |-> "Ann"]>>

Sidecars == {NoFile, Malformed, FullSidecar, PartialSidecar}

NoConfig == <<NoFile, NoFile, NoFile>>

ConfigChoices ==
  { NoConfig,
    << <<"json", [k \in {"defaultTitle", "defaultAuthor", "defaultLanguage"} |->
                    CASE k = "defaultTitle" -> "CfgT"
                      [] k = "defaultAuthor" -> "Cfg A"
                      [] k = "defaultLanguage" -> "EN"]>>,
       Malformed,
       <<"json", [k \in {"defaultTitle"} |-> "CfgT2"]>> >> }

ArgvChoices ==
  { << >>,
    [k \in {"title", "language", "tags"} |->
       CASE k = "title" -> "CliT"
         [] k = "language" -> "CN"
         [] k = "tags" -> <<"t1", "t2">>] }

-----------------------------------------------------------------------------
(* Configuration and command line (lines 15-84, 476-492) *)

\* process.cwd()
Cwd == "/home/u/mybook"

defaultConfig ==
  [k \in {"defaultCover", "defaultTitle"} |->
     IF k = "defaultCover" THEN "cover.jpg" ELSE basename(Cwd)]

\* one round of the forEach of getConfig: a file that is missing or does not
\* parse leaves config as it is
MergeConfigFile(config, file) ==
  IF JSONparses(file) THEN Assign(config, JSONparse(file)) ELSE config

\* the console.log of line 488, once for each file that is there and does
\* not parse
ConfigErrors ==
  SelectSeq([i \in 1..3 |-> IF configFiles[i] # NoFile /\ ~JSONparses(configFiles[i])
                              THEN "config error" ELSE ""],
            LAMBDA line : line # "")

getConfig ==
  MergeConfigFile(
    MergeConfigFile(MergeConfigFile(defaultConfig, configFiles[1]),
                    configFiles[2]),
    configFiles[3])

OptionDefault ==
  [k \in {"author", "cover", "description", "language", "title", "tags"} |->
     CASE k = "author" -> "defaultAuthor"
       [] k = "cover" -> "defaultCover"
       [] k = "description" -> "defaultDescription"
       [] k = "language" -> "defaultLanguage"
       [] k = "title" -> "defaultTitle"
       [] k = "tags" -> "defaultTags"]

\* parseArgs(optionsConfig).values: the value given on the command line, else
\* the option's default, which is the configuration's value
ParseArgs(config) ==
  [k \in DOMAIN OptionDefault |->
     IF k \in DOMAIN argv THEN argv[k] ELSE Get(config, OptionDefault[k])]

\* the object literal of lines 96-103
DefaultMetadata ==
  [k \in {"title", "author", "language", "cover_image", "description", "tags"} |->
     CASE k = "title" -> options["title"]
       [] k = "author" -> options["author"]
       [] k = "language" -> options["language"]
       [] k = "cover_image" -> options["cover"]
       [] k = "description" -> options["description"]
       [] k = "tags" -> options["tags"]]

-----------------------------------------------------------------------------
(* The working directory *)

MetadataJson == "metadata.json"

EpubName == "book-" \o ToStr(Get(metadata, "title")) \o ".epub"

\* every order of the elements of S
Orders(S) ==
  {l \in [1..Cardinality(S) -> S] : \A e \in S : \E i \in DOMAIN l : l[i] = e}

\* what fs.readdirSync('.') may return: it promises no order, so the user's
\* files come in every order; metadata.json and the tool's output files, which
\* the forEach of line 145 passes over, are listed after them
Listings ==
  {u \o (IF sidecar = NoFile THEN << >> ELSE <<MetadataJson>>) \o o :
     u \in Orders(DOMAIN userFiles), o \in Orders(DOMAIN outFiles)}

-----------------------------------------------------------------------------
(* processMarkdown (lines 196-240) and processImage (lines 242-247) *)

IsSpace(c) == c \in {" ", "\t", "\n"}

\* content.match(/^#\s+(.*)/m): group 1 of the first match, or undefined
MatchTitle(content) ==
  LET n == Len(content)
      starts == {p \in 0..(n - 1) :
                   /\ p = 0 \/ CharAt(content, p - 1) = "\n"
                   /\ CharAt(content, p) = "#"
                   /\ IsSpace(CharAt(content, p + 1))}
  IN  IF starts = {} THEN Undefined
      ELSE LET p == CHOOSE q \in starts : \A r \in starts : q <= r
               j == CHOOSE q \in (p + 1)..n :
                      /\ ~IsSpace(CharAt(content, q))
                      /\ \A r \in (p + 1)..(q - 1) : IsSpace(CharAt(content, r))
               k == CHOOSE q \in j..n :
                      /\ q = n \/ CharAt(content, q) = "\n"
                      /\ \A r \in j..(q - 1) : CharAt(content, r) # "\n"
           IN  SubSeq(content, j + 1, k)

\* a branch that does not look for the name in the content
PrependAlways(content, name) == "![](" \o name \o ")\n" \o content

\* one branch of the if / else-if chain of lines 201-217
Prepend(content, name) ==
  IF ~Contains(content, name) THEN "![](" \o name \o ")\n" \o content
  ELSE content

\* the content handed to md.render
WithCompanion(path, content) ==
  LET image == SliceDropLast(path, 3)
  IN  IF Includes(files, image \o ".jpg") THEN Prepend(content, image \o ".jpg")
      ELSE IF Includes(files, image \o ".jpeg")
             THEN Prepend(content, image \o ".jpeg")
      ELSE IF Includes(files, image \o ".png")
             THEN Prepend(content, image \o ".png")
      ELSE IF Includes(files, image \o ".gif")
             THEN Prepend(content, image \o ".gif")
      ELSE content

XhtmlPath(path) == "EPUB/" \o SliceDropLast(path, 3) \o ".xhtml"

\* the document of lines 219-231 around md.render(content)
ChapterXhtml(path, content) ==
  [doc |-> "chapter",
   lang |-> ToStr(Get(metadata, "language")),
   title |-> path,
   markdown |-> WithCompanion(path, content)]

ChapterRecord(path, content) ==
  [path |-> path, xhtmlPath |-> XhtmlPath(path), title |-> MatchTitle(content)]

\* the test of lines 149-154
IsImagePath(path) ==
  \/ EndsWith(path, "jpg")
  \/ EndsWith(path, "jpeg")
  \/ EndsWith(path, "png")
  \/ EndsWith(path, "gif")

-----------------------------------------------------------------------------
(* The generated documents (lines 249-462) *)

ContainerXml == [doc |-> "container", rootfile |-> "EPUB/content.opf"]

\* basename(p).replaceAll('.', '_'), the id of a manifest item (lines 290, 304)
ItemId(p) == ReplaceAll(basename(p), ".", "_")

\* a spine entry that names the file instead of the id of its item
SpineIdrefOfFileName(p) == basename(p)

\* the idref of a spine entry (line 317)
SpineIdref(p) == ReplaceAll(basename(p), ".", "_")

mimeTypes ==
  [e \in {"jpg", "jpeg", "png", "gif"} |->
     IF e = "png" THEN "image/png"
     ELSE IF e = "gif" THEN "image/gif" ELSE "image/jpeg"]

FixedItems ==
  << [id |-> "ncx", href |-> "toc.ncx", mediaType |-> "application/x-dtbncx+xml"],
     [id |-> "nav", href |-> "nav.xhtml", mediaType |-> "application/xhtml+xml"],
     [id |-> "stylesheet", href |-> "stylesheet.css", mediaType |-> "text/css"],
     [id |-> "cover_xhtml", href |-> "cover.xhtml",
      mediaType |-> "application/xhtml+xml"],
     [id |-> "title_page_xhtml", href |-> "title_page.xhtml",
      mediaType |-> "application/xhtml+xml"] >>

ChapterItem(chapter) ==
  [id |-> ItemId(chapter.xhtmlPath),
   href |-> basename(chapter.xhtmlPath),
   mediaType |-> "application/xhtml+xml"]

ImageItem(image) ==
  [id |-> ItemId(image),
   href |-> basename(image),
   mediaType |-> ToStr(Get(mimeTypes, extension(image)))]

Manifest ==
  FixedItems
    \o [i \in 1..Len(chapters) |-> ChapterItem(chapters[i])]
    \o [i \in 1..Len(images) |-> ImageItem(images[i])]

Spine ==
  <<"cover_xhtml", "title_page_xhtml", "nav">>
    \o [i \in 1..Len(chapters) |-> SpineIdref(chapters[i].xhtmlPath)]

ContentOpf ==
  [doc |-> "opf",
   title |-> ToStr(Get(metadata, "title")),
   language |-> ToStr(Get(metadata, "language")),
   manifest |-> Manifest,
   spine |-> Spine]

\* the label of a chapter in nav.xhtml and toc.ncx (lines 351-352, 437-438)
ChapterLabel(chapter) ==
  SliceDropLast(basename(chapter.xhtmlPath), 6)
    \o (IF chapter.title # Undefined /\ chapter.title # ""
          THEN " - " \o chapter.title ELSE "")

ChapterEntries ==
  [i \in 1..Len(chapters) |->
     [href |-> basename(chapters[i].xhtmlPath), label |-> ChapterLabel(chapters[i])]]

NavXhtml ==
  [doc |-> "nav",
   toc |-> << [href |-> "cover.xhtml", label |-> "Cover"],
              [href |-> "title_page.xhtml", label |-> "Title"],
              [href |-> "nav.xhtml", label |-> "TOC"] >> \o ChapterEntries]

CoverXhtml == [doc |-> "cover", img |-> ToStr(Get(metadata, "cover_image"))]

TitlePageXhtml ==
  [doc |-> "title_page",
   title |-> ToStr(Get(metadata, "title")),
   author |-> ToStr(Get(metadata, "author"))]

TocNcx == [doc |-> "ncx", navMap |-> ChapterEntries]

Stylesheet == [doc |-> "stylesheet"]

-----------------------------------------------------------------------------
(* The script, top to bottom *)

\* lines 15-90: configuration and command line
Start ==
  /\ pc = "start"
  /\ options' = ParseArgs(getConfig)
  /\ console' = console \o ConfigErrors
  /\ pc' = "readdir"
  /\ UNCHANGED <<userFiles, sidecar, outFiles, configFiles, argv, files,
                 metadata, chapters, fileNames, images, fi, zip, promise,
                 events, firstRun, firstMeta, sidecar0, renderVars>>

\* line 92
ReadDir ==
  /\ pc = "readdir"
  /\ \E l \in Listings : files' = l
  /\ pc' = "synth"
  /\ UNCHANGED <<userFiles, sidecar, outFiles, configFiles, argv, options,
                 metadata, chapters, fileNames, images, fi, zip, promise,
                 console, events, firstRun, firstMeta, sidecar0, renderVars>>

\* a synthesis that does not look for metadata.json in the listing
SynthesizeMetadataAlways ==
  /\ pc = "synth"
  /\ console' = Append(console, "Generating default metadata.json")
  /\ sidecar' = JSONstringify(DefaultMetadata)
  /\ pc' = "load"
  /\ UNCHANGED <<userFiles, outFiles, configFiles, argv, options, files,
                 metadata, chapters, fileNames, images, fi, zip, promise,
                 events, firstRun, firstMeta, sidecar0, renderVars>>

\* lines 94-105
SynthesizeMetadata ==
  /\ pc = "synth"
  /\ IF ~Includes(files, MetadataJson)
       THEN /\ console' = Append(console, "Generating default metadata.json")
            /\ sidecar' = JSONstringify(DefaultMetadata)
       ELSE UNCHANGED <<console, sidecar>>
  /\ pc' = "load"
  /\ UNCHANGED <<userFiles, outFiles, configFiles, argv, options, files,
                 metadata, chapters, fileNames, images, fi, zip, promise,
                 events, firstRun, firstMeta, sidecar0, renderVars>>

\* lines 107-143: a text that does not parse throws out of the script
LoadMetadata ==
  /\ pc = "load"
  /\ JSONparses(sidecar)
  /\ metadata' = JSONparse(sidecar)
  /\ console' = Append(console, "metadata: ")
  /\ firstMeta' = IF firstRun THEN <<JSONparse(sidecar)>> ELSE firstMeta
  /\ pc' = "foreach"
  /\ UNCHANGED <<userFiles, sidecar, outFiles, configFiles, argv, options,
                 files, chapters, fileNames, images, fi, zip, promise, events,
                 firstRun, sidecar0, renderVars>>

\* a load that catches the parse error and goes on without metadata
LoadMetadataIgnoresError ==
  /\ pc = "load"
  /\ ~JSONparses(sidecar)
  /\ pc' = "foreach"
  /\ UNCHANGED <<userFiles, sidecar, outFiles, configFiles, argv, options,
                 files, metadata, chapters, fileNames, images, fi, zip,
                 promise, console, events, firstRun, firstMeta, sidecar0,
                 renderVars>>

LoadMetadataThrows ==
  /\ pc = "load"
  /\ ~JSONparses(sidecar)
  /\ pc' = "threw"
  /\ UNCHANGED <<userFiles, sidecar, outFiles, configFiles, argv, options,
                 files, metadata, chapters, fileNames, images, fi, zip,
                 promise, console, events, firstRun, firstMeta, sidecar0, renderVars>>

\* lines 145-158, one element of files per step
ForEachMarkdown ==
  /\ pc = "foreach"
  /\ fi < Len(files)
  /\ LET path == files[fi + 1]
     IN  /\ EndsWith(path, ".md")
         /\ zip' = ZipFile(zip, XhtmlPath(path),
                           ChapterXhtml(path, userFiles[path]))
         /\ chapters' = Append(chapters, ChapterRecord(path, userFiles[path]))
         /\ fileNames' = Append(fileNames, XhtmlPath(path))
  /\ fi' = fi + 1
  /\ UNCHANGED <<userFiles, sidecar, outFiles, configFiles, argv, pc, options,
                 files, metadata, images, promise, console, events, firstRun,
                 firstMeta, sidecar0, renderVars>>

ForEachImage ==
  /\ pc = "foreach"
  /\ fi < Len(files)
  /\ LET path == files[fi + 1]
     IN  /\ ~EndsWith(path, ".md")
         /\ IsImagePath(path)
         /\ console' = Append(console, "process: " \o path)
         /\ zip' = ZipFile(zip, "EPUB/" \o path,
                           [doc |-> "image", bytes |-> userFiles[path]])
         /\ fileNames' = Append(fileNames, "EPUB/" \o path)
         /\ images' = Append(images, "EPUB/" \o path)
  /\ fi' = fi + 1
  /\ UNCHANGED <<userFiles, sidecar, outFiles, configFiles, argv, pc, options,
                 files, metadata, chapters, promise, events, firstRun, firstMeta, sidecar0,
                 renderVars>>

ForEachOther ==
  /\ pc = "foreach"
  /\ fi < Len(files)
  /\ LET path == files[fi + 1]
     IN  ~EndsWith(path, ".md") /\ ~IsImagePath(path)
  /\ fi' = fi + 1
  /\ UNCHANGED <<userFiles, sidecar, outFiles, configFiles, argv, pc, options,
                 files, metadata, chapters, fileNames, images, zip, promise,
                 console, events, firstRun, firstMeta, sidecar0, renderVars>>

\* one of the calls of lines 160-172
AddDocument(at, name, document, next) ==
  /\ pc = at
  /\ zip' = ZipFile(zip, name, document)
  /\ pc' = next
  /\ UNCHANGED <<userFiles, sidecar, outFiles, configFiles, argv, options,
                 files, metadata, chapters, fileNames, images, fi, promise,
                 console, events, firstRun, firstMeta, sidecar0, renderVars>>

addContainerXml ==
  /\ fi = Len(files)
  /\ AddDocument("foreach", "META-INF/container.xml", ContainerXml,
                 "addContentOpf")

addContentOpf ==
  AddDocument("addContentOpf", "EPUB/content.opf", ContentOpf, "addNavXhtml")

addNavXhtml ==
  AddDocument("addNavXhtml", "EPUB/nav.xhtml", NavXhtml, "addCoverXhtml")

addCoverXhtml ==
  AddDocument("addCoverXhtml", "EPUB/cover.xhtml", CoverXhtml,
              "addTitlePageXhtml")

addTitlePageXhtml ==
  AddDocument("addTitlePageXhtml", "EPUB/title_page.xhtml", TitlePageXhtml,
              "addTocNcx")

addTocNcx == AddDocument("addTocNcx", "EPUB/toc.ncx", TocNcx, "addStylesheet")

addStylesheet ==
  AddDocument("addStylesheet", "EPUB/stylesheet.css", Stylesheet,
              "generateAsync")

\* line 174: the serialization is requested; its callback runs after the script
GenerateAsync ==
  /\ pc = "generateAsync"
  /\ promise' = "pending"
  /\ events' = Append(events, "requested")
  /\ pc' = "report"
  /\ UNCHANGED <<userFiles, sidecar, outFiles, configFiles, argv, options,
                 files, metadata, chapters, fileNames, images, fi, zip,
                 console, firstRun, firstMeta, sidecar0, renderVars>>

\* lines 179-185: the last statement of the script
ReportEpub ==
  /\ pc = "report"
  /\ console' = Append(console, "epub: " \o EpubName)
  /\ events' = Append(events, "reported")
  /\ pc' = "loop"
  /\ UNCHANGED <<userFiles, sidecar, outFiles, configFiles, argv, options,
                 files, metadata, chapters, fileNames, images, fi, zip,
                 promise, firstRun, firstMeta, sidecar0, renderVars>>

\* lines 175-177: the promise is fulfilled and the callback writes the file
SerializationDone ==
  /\ pc = "loop"
  /\ promise = "pending"
  /\ promise' = "fulfilled"
  /\ outFiles' = (EpubName :> zip) @@ outFiles
  /\ events' = Append(events, "written")
  /\ pc' = "exit"
  /\ UNCHANGED <<userFiles, sidecar, configFiles, argv, options, files,
                 metadata, chapters, fileNames, images, fi, zip, console, firstRun,
                 firstMeta, sidecar0, renderVars>>

\* the serialization or the write of line 176 fails: the promise is rejected
\* and nothing handles the rejection
SerializationFails ==
  /\ pc = "loop"
  /\ promise = "pending"
  /\ promise' = "rejected"
  /\ events' = Append(events, "failed")
  /\ pc' = "rejected"
  /\ UNCHANGED <<userFiles, sidecar, outFiles, configFiles, argv, options,
                 files, metadata, chapters, fileNames, images, fi, zip,
                 console, firstRun, firstMeta, sidecar0, renderVars>>

\* the tool is run again on the directory as the last run left it
NextRun ==
  /\ pc \in {"exit", "threw", "rejected"}
  /\ firstRun' = FALSE
  /\ \E a \in ArgvChoices : argv' = a
  /\ pc' = "start"
  /\ options' = << >>
  /\ files' = << >>
  /\ metadata' = << >>
  /\ chapters' = << >>
  /\ fileNames' = << >>
  /\ images' = << >>
  /\ fi' = 0
  /\ zip' = << >>
  /\ promise' = "none"
  /\ console' = << >>
  /\ events' = << >>
  /\ UNCHANGED <<userFiles, sidecar, outFiles, configFiles, firstMeta,
                 sidecar0, renderVars>>

-----------------------------------------------------------------------------
(* Specification of the runs of the tool *)

InitProgram ==
  /\ pc = "start"
  /\ options = << >>
  /\ files = << >>
  /\ metadata = << >>
  /\ chapters = << >>
  /\ fileNames = << >>
  /\ images = << >>
  /\ fi = 0
  /\ zip = << >>
  /\ promise = "none"
  /\ console = << >>
  /\ events = << >>

\* The directories, metadata files, configurations and command lines a run
\* starts from: any directory of the names with no or an unparsable
\* metadata.json; a directory of at most one file with every metadata.json,
\* configuration and command line; chapter a.md with its companion images
Init ==
  /\ \/ /\ userFiles \in UserDirs(MaxFiles)
        /\ sidecar \in {NoFile, Malformed}
        /\ configFiles = NoConfig
        /\ argv = << >>
     \/ /\ userFiles \in UserDirs(1)
        /\ sidecar \in Sidecars
        /\ configFiles \in ConfigChoices
        /\ argv \in ArgvChoices
     \/ /\ userFiles \in CompanionDirs(MaxFiles)
        /\ sidecar = FullSidecar
        /\ configFiles = NoConfig
        /\ argv = << >>
  /\ outFiles = << >>
  /\ InitProgram
  /\ firstRun = TRUE
  /\ firstMeta = << >>
  /\ sidecar0 = sidecar
  /\ tokens = << >>
  /\ idx = 0
  /\ out = << >>

Next ==
  \/ Start
  \/ ReadDir
  \/ SynthesizeMetadata
  \/ LoadMetadata
  \/ LoadMetadataThrows
  \/ ForEachMarkdown
  \/ ForEachImage
  \/ ForEachOther
  \/ addContainerXml
  \/ addContentOpf
  \/ addNavXhtml
  \/ addCoverXhtml
  \/ addTitlePageXhtml
  \/ addTocNcx
  \/ addStylesheet
  \/ GenerateAsync
  \/ ReportEpub
  \/ SerializationDone
  \/ SerializationFails
  \/ NextRun

Spec == Init /\ [][Next]_vars

-----------------------------------------------------------------------------
(* The soft-break rule of the renderer (lines 126-143, 464-474).  A token   *)
(* is [type, content]; content is the sequence of its UTF-16 code units.    *)

\* charCodeAt(0) of the empty string: NaN, no code unit
NaN == -1

\* a < b on numbers: false when either is NaN
Less(a, b) == a # NaN /\ b # NaN /\ a < b

\* c is the result of a slice: at most one code unit
isCJK(c) ==
  LET cc == IF Len(c) = 0 THEN NaN ELSE c[1]
  IN  ~ ( /\ cc # 9675
          /\ (Less(cc, 13312) \/ Less(40959, cc))
          /\ (Less(cc, 63744) \/ Less(64255, cc))
          /\ (Less(cc, 65313) \/ Less(65338, cc))
          /\ (Less(cc, 65345) \/ Less(65370, cc)) )

\* content.slice(-1) and content.slice(0, 1)
LastUnit(content) ==
  IF Len(content) = 0 THEN << >> ELSE <<content[Len(content)]>>

FirstUnit(content) == IF Len(content) = 0 THEN << >> ELSE <<content[1]>>

\* markdown-it's own rule, with the options of line 4 (breaks is not set)
DefaultBreak == "\n"

TypeError == "TypeError"

\* the function of lines 127-142; i is the 0-based idx, tokens[i] is toks[i + 1].
\* Reading .type of tokens[idx+1] throws when idx+1 is past the end
softbreak(toks, i) ==
  IF /\ i > 0
     /\ toks[i].type = "text"
     /\ isCJK(LastUnit(toks[i].content))
     /\ i < Len(toks)
  THEN IF i + 2 > Len(toks) THEN TypeError
       ELSE IF /\ toks[i + 2].type = "text"
               /\ isCJK(FirstUnit(toks[i + 2].content))
            THEN ""
            ELSE DefaultBreak
  ELSE DefaultBreak

\* md.renderer.rules.softbreak after line 143
SoftbreakRule(toks, i) ==
  IF Get(metadata, "language") = "CN" THEN softbreak(toks, i) ELSE DefaultBreak

\* the renderer renders token idx of a chapter
RenderToken ==
  /\ pc = "foreach"
  /\ idx < Len(tokens)
  /\ LET r == IF tokens[idx + 1].type = "softbreak"
                THEN SoftbreakRule(tokens, idx) ELSE "-"
     IN  /\ out' = Append(out, r)
         /\ pc' = IF r = TypeError THEN "threw" ELSE pc
  /\ idx' = idx + 1
  /\ UNCHANGED <<userFiles, sidecar, outFiles, configFiles, argv, options,
                 files, metadata, chapters, fileNames, images, fi, zip,
                 promise, console, events, firstRun, firstMeta, sidecar0,
                 tokens>>

\* code units: 'a', U+25CB, U+4F60, U+A000
Units == {97, 9675, 20320, 40960}

TextContents == {<<u>> : u \in Units} \cup {<<97, 20320>>}

TokenChoices ==
  {[type |-> "text", content |-> c] : c \in TextContents}
    \cup {[type |-> "softbreak", content |-> << >>],
          [type |-> "code_inline", content |-> <<20320>>]}

\* one chapter, whose inline tokens are any sequence of the token choices;
\* the language comes from metadata.json, the command line or the configuration
InitRender ==
  /\ userFiles = [n \in {"a.md"} |-> PlainContent]
  /\ sidecar \in {NoFile, FullSidecar}
  /\ outFiles = << >>
  /\ configFiles \in ConfigChoices
  /\ argv \in ArgvChoices
  /\ InitProgram
  /\ firstRun = TRUE
  /\ firstMeta = << >>
  /\ sidecar0 = sidecar
  /\ tokens \in UNION {[1..n -> TokenChoices] : n \in 1..MaxTokens}
  /\ idx = 0
  /\ out = << >>

NextRender ==
  \/ Start
  \/ ReadDir
  \/ SynthesizeMetadata
  \/ LoadMetadata
  \/ RenderToken

SpecRender == InitRender /\ [][NextRender]_vars

-----------------------------------------------------------------------------
(* Properties of the package document and the archive *)

OpfPath == "EPUB/content.opf"

OpfWritten == OpfPath \in DOMAIN zip

IsMd(name) == EndsWith(name, ".md")

\* the user's chapter sources and image files
UserMd == {n \in DOMAIN userFiles : IsMd(n)}

UserImages == {n \in DOMAIN userFiles : ~IsMd(n) /\ IsImagePath(n)}

\* the .md entries of the listing, in the order of the listing
MdOf(listing) == SelectSeq(listing, IsMd)

HrefOfMd(name) == SliceDropLast(name, 3) \o ".xhtml"

FixedHrefs ==
  {"toc.ncx", "nav.xhtml", "stylesheet.css", "cover.xhtml", "title_page.xhtml"}

\* the names in ascending order of their code units
NameOrder ==
  <<"a.gif", "a.jpeg", "a.jpg", "a.md", "a.png", "b.md", "cover.md", "xjpg">>

\* the user's chapter sources in ascending order of name
SortedMd == SelectSeq(NameOrder, LAMBDA n : n \in UserMd)

\* C1: the manifest of content.opf holds exactly one item per chapter, per
\* image and per fixed structural document, and no two items of the manifest
\* have the same id.
C1_ManifestIdsDistinct ==
  OpfWritten =>
    LET m == zip[OpfPath].manifest
    IN  /\ Len(m) = 5 + Cardinality(UserMd) + Cardinality(UserImages)
        /\ \A h \in FixedHrefs : \E k \in 1..5 : m[k].href = h
        /\ \A n \in UserMd : \E k \in 6..Len(m) : m[k].href = HrefOfMd(n)
        /\ \A n \in UserImages : \E k \in 6..Len(m) : m[k].href = n
        /\ \A i, j \in 1..Len(m) : i # j => m[i].id # m[j].id

\* C2: the spine lists cover, title page and navigation, then every chapter
\* of the listing once and in the order of the listing, and each idref is the
\* id of the manifest item of the same document.
C2_SpineOrder ==
  OpfWritten =>
    LET m == zip[OpfPath].manifest
        spine == zip[OpfPath].spine
        md == MdOf(files)
    IN  /\ Len(spine) = 3 + Len(md)
        /\ m[4].href = "cover.xhtml" /\ spine[1] = m[4].id
        /\ m[5].href = "title_page.xhtml" /\ spine[2] = m[5].id
        /\ m[2].href = "nav.xhtml" /\ spine[3] = m[2].id
        /\ \A i \in 1..Len(md) :
             /\ m[5 + i].href = HrefOfMd(md[i])
             /\ spine[3 + i] = m[5 + i].id

C2_Witness ==
  /\ OpfWritten
  /\ Len(MdOf(files)) >= 2
  /\ MdOf(files)[1] = "b.md"
  /\ Len(zip[OpfPath].spine) >= 5

\* C3: once serialization is requested, every href of the manifest names an
\* entry of the archive under EPUB/, and the entry of each chapter holds that
\* chapter's rendered document.
C3_ManifestEntriesExist ==
  promise # "none" =>
    /\ \A k \in 1..Len(zip[OpfPath].manifest) :
         ("EPUB/" \o zip[OpfPath].manifest[k].href) \in DOMAIN zip
    /\ \A i \in 1..Len(chapters) :
         /\ chapters[i].xhtmlPath \in DOMAIN zip
         /\ zip[chapters[i].xhtmlPath].doc = "chapter"
         /\ zip[chapters[i].xhtmlPath].title = chapters[i].path

\* C4: in whatever order the directory is listed, the chapters are taken, and
\* appear in the spine, in nav.xhtml and in toc.ncx, in ascending order of
\* the names of their Markdown files.
C4_ChaptersSorted ==
  LET hrefs == [i \in 1..Len(SortedMd) |-> HrefOfMd(SortedMd[i])]
  IN  /\ pc \notin {"start", "readdir", "synth", "load", "foreach", "threw"} =>
           [i \in 1..Len(chapters) |-> chapters[i].path] = SortedMd
      /\ OpfWritten =>
           SubSeq(zip[OpfPath].spine, 4, Len(zip[OpfPath].spine))
             = [i \in 1..Len(hrefs) |-> ReplaceAll(hrefs[i], ".", "_")]
      /\ "EPUB/nav.xhtml" \in DOMAIN zip /\ zip["EPUB/nav.xhtml"].doc = "nav" =>
           LET toc == zip["EPUB/nav.xhtml"].toc
           IN  [i \in 1..(Len(toc) - 3) |-> toc[3 + i].href] = hrefs
      /\ "EPUB/toc.ncx" \in DOMAIN zip =>
           LET navMap == zip["EPUB/toc.ncx"].navMap
           IN  [i \in 1..Len(navMap) |-> navMap[i].href] = hrefs

-----------------------------------------------------------------------------
(* Properties of the metadata and of the order of a run *)

GeneratingMessage == "Generating default metadata.json"

\* the script is past line 107
Loaded == pc \notin {"start", "readdir", "synth", "load", "threw"}

\* the script is past the forEach of lines 145-158
ForEachDone == Loaded /\ (pc = "foreach" => fi = Len(files))

\* C5: on a directory that had no metadata.json, the first run writes it
\* before it reads the metadata; every later run finds it in the listing, does
\* not write it and resolves the metadata of the first run; the files the tool
\* wrote do not change the chapters and images a run discovers.
C5_RunsReproducible ==
  sidecar0 = NoFile =>
    /\ firstRun =>
         /\ pc \in {"start", "readdir", "synth"} =>
              sidecar = NoFile /\ metadata = << >>
         /\ pc \notin {"start", "readdir", "synth"} =>
              /\ sidecar # NoFile
              /\ Includes(console, GeneratingMessage)
              /\ JSONparses(sidecar)
         /\ Loaded => firstMeta = <<metadata>>
    /\ ~firstRun =>
         /\ Len(firstMeta) = 1
         /\ sidecar = <<"json", firstMeta[1]>>
         /\ pc \notin {"start", "readdir"} => Includes(files, MetadataJson)
         /\ ~Includes(console, GeneratingMessage)
         /\ pc # "threw"
         /\ Loaded => metadata = firstMeta[1]
    /\ ForEachDone =>
         /\ {chapters[i].path : i \in 1..Len(chapters)} = UserMd
         /\ Len(chapters) = Cardinality(UserMd)
         /\ {images[i] : i \in 1..Len(images)} = {"EPUB/" \o n : n \in UserImages}
         /\ Len(images) = Cardinality(UserImages)

C5_Witness ==
  /\ sidecar0 = NoFile
  /\ ~firstRun
  /\ pc = "exit"
  /\ "title" \in DOMAIN argv
  /\ Len(chapters) >= 1
  /\ Len(images) >= 1
  /\ Get(metadata, "title") = basename(Cwd)
  /\ DOMAIN outFiles # {}
  /\ Includes(files, EpubName)

\* the option that carries a field of the metadata
OptionOf ==
  [k \in {"title", "author", "language", "cover_image", "description", "tags"} |->
     IF k = "cover_image" THEN "cover" ELSE k]

\* the last configuration file that parses and sets the key, or 0
LastConfigWith(key) ==
  LET with == {i \in 1..3 : /\ JSONparses(configFiles[i])
                            /\ key \in DOMAIN JSONparse(configFiles[i])}
  IN  IF with = {} THEN 0 ELSE CHOOSE i \in with : \A j \in with : j <= i

\* a field resolved in the order sidecar, command line, configuration, fallback
ResolvedInOrder(k) ==
  IF JSONparses(sidecar) /\ k \in DOMAIN JSONparse(sidecar)
    THEN JSONparse(sidecar)[k]
  ELSE IF OptionOf[k] \in DOMAIN argv THEN argv[OptionOf[k]]
  ELSE IF LastConfigWith(OptionDefault[OptionOf[k]]) # 0
    THEN JSONparse(configFiles[LastConfigWith(OptionDefault[OptionOf[k]])])
           [OptionDefault[OptionOf[k]]]
  ELSE IF k = "title" THEN "mybook"
  ELSE IF k = "cover_image" THEN "cover.jpg"
  ELSE Undefined

\* C6: every field of the metadata is the value of the sidecar, else of the
\* command line, else of the configuration, else the fallback; title and
\* cover_image are never absent.
C6_ResolutionOrder ==
  Loaded =>
    /\ \A k \in DOMAIN OptionOf : Get(metadata, k) = ResolvedInOrder(k)
    /\ Get(metadata, "title") # Undefined
    /\ Get(metadata, "cover_image") # Undefined

\* the positions of an event in the history of the run
At(e) == {i \in 1..Len(events) : events[i] = e}

\* C7: serialization is requested once, after the documents are generated;
\* the file is written after the request; success is reported only after the
\* file is written and never when serialization fails.
C7_ReportAfterWrite ==
  /\ Cardinality(At("requested")) <= 1
  /\ At("requested") # {} => "EPUB/stylesheet.css" \in DOMAIN zip
  /\ \A w \in At("written") : \E r \in At("requested") : r < w
  /\ \A p \in At("reported") : \E w \in At("written") : w < p
  /\ At("failed") # {} => At("reported") = {}

\* the images a chapter may have as companion, in the order of preference
Companions(path) ==
  LET base == SliceDropLast(path, 3)
  IN  <<base \o ".jpg", base \o ".jpeg", base \o ".png", base \o ".gif">>

\* C8: the companion of chapter X.md is the first of X.jpg, X.jpeg, X.png,
\* X.gif in the listing; its markup comes before the chapter's text exactly
\* when the text does not contain its name; nothing is put before the text
\* for any other image.
C8_CompanionImage ==
  \A i \in 1..Len(chapters) :
    LET path == chapters[i].path
        raw == userFiles[path]
        entry == zip[chapters[i].xhtmlPath]
        present == {k \in 1..4 : Includes(files, Companions(path)[k])}
        first == CHOOSE k \in present : \A j \in present : k <= j
        selected == Companions(path)[first]
    IN  (entry.doc = "chapter" /\ entry.title = path) =>
          IF present # {} /\ ~Contains(raw, selected)
            THEN entry.markdown = "![](" \o selected \o ")\n" \o raw
            ELSE entry.markdown = raw

C8_Witness ==
  /\ Includes(files, "a.jpg")
  /\ Includes(files, "a.png")
  /\ "EPUB/a.xhtml" \in DOMAIN zip
  /\ Contains(userFiles["a.md"], "a.jpg")
  /\ ~Contains(userFiles["a.md"], "a.png")
  /\ zip["EPUB/a.xhtml"].markdown = userFiles["a.md"]

\* the code points the rule is stated for: U+3400-U+9FFF, U+F900-U+FAFF,
\* U+FF21-U+FF3A, U+FF41-U+FF5A
InCJKRanges(u) ==
  \/ 13312 <= u /\ u <= 40959
  \/ 63744 <= u /\ u <= 64255
  \/ 65313 <= u /\ u <= 65338
  \/ 65345 <= u /\ u <= 65370

\* the character before and after token k is a character of the ranges
CJKBefore(k) ==
  /\ k > 1
  /\ tokens[k - 1].type = "text"
  /\ Len(tokens[k - 1].content) > 0
  /\ InCJKRanges(tokens[k - 1].content[Len(tokens[k - 1].content)])

CJKAfter(k) ==
  /\ k < Len(tokens)
  /\ tokens[k + 1].type = "text"
  /\ Len(tokens[k + 1].content) > 0
  /\ InCJKRanges(tokens[k + 1].content[1])

\* C9: with language 'CN' a soft break renders as the empty string exactly
\* when the characters before and after it are both CJK, and as the default
\* break otherwise; with any other language it renders as the default break;
\* the rule never fails, at the first and the last token included.
C9_SoftbreakRule ==
  \A k \in 1..Len(out) :
    tokens[k].type = "softbreak" =>
      out[k] = IF /\ Get(metadata, "language") = "CN"
                  /\ CJKBefore(k)
                  /\ CJKAfter(k)
               THEN "" ELSE DefaultBreak

\* C10: when metadata.json is there and does not parse, the run ends at the
\* read of the metadata: no chapter is rendered, the archive stays empty, no
\* .epub is written, metadata.json is as it was and success is not reported.
C10_MalformedAborts ==
  sidecar0 = Malformed =>
    /\ pc \in {"start", "readdir", "synth", "load", "threw"}
    /\ sidecar = Malformed
    /\ chapters = << >>
    /\ zip = << >>
    /\ promise = "none"
    /\ outFiles = << >>
    /\ \A i \in 1..Len(console) : console[i] # "epub: " \o EpubName
    /\ events = << >>

C10_Witness ==
  /\ sidecar0 = Malformed
  /\ pc = "threw"
  /\ UserMd # {}
  /\ Includes(files, MetadataJson)

\* the extensions the manifest has a media type for, and those media types
ImageExtensions == {"jpg", "jpeg", "png", "gif"}

MediaTypeOfExtension(e) ==
  CASE e = "png" -> "image/png"
    [] e = "gif" -> "image/gif"
    [] OTHER -> "image/jpeg"

\* the name ends with a dot followed by the extension
HasExtension(name, e) == EndsWith(name, "." \o e)

\* the entries of the listing that are image files, in the order of the listing
ImageFilesOf(listing) ==
  SelectSeq(listing,
            LAMBDA n : ~IsMd(n) /\ \E e \in ImageExtensions : HasExtension(n, e))

\* the items of the manifest after the fixed items and the chapters
ImageItemsOf(opf) ==
  SubSeq(opf.manifest, Len(FixedItems) + Len(chapters) + 1, Len(opf.manifest))

\* C11: the entries taken as images are exactly the entries, other than .md
\* files, whose extension is jpg, jpeg, png or gif; each is copied into the
\* archive under EPUB/ and its manifest item carries the media type of its
\* extension; every other entry that is not an .md file is ignored.
C11_ImageMediaTypes ==
  /\ ForEachDone =>
       /\ images = [i \in 1..Len(ImageFilesOf(files)) |->
                      "EPUB/" \o ImageFilesOf(files)[i]]
       /\ \A i \in 1..Len(images) : images[i] \in DOMAIN zip
  /\ OpfWritten =>
       LET items == ImageItemsOf(zip[OpfPath])
       IN  /\ Len(items) = Len(images)
           /\ \A i \in 1..Len(items) :
                /\ items[i].href = basename(images[i])
                /\ \E e \in ImageExtensions :
                     /\ HasExtension(items[i].href, e)
                     /\ items[i].mediaType = MediaTypeOfExtension(e)

====
